---- MODULE Spec2Model ----
(***************************************************************************)
(* Behavior3JS: the Parallel composite (src/src/composites/Parallel.js)    *)
(* and the helper functions b3.Class and b3.LoadProject                    *)
(* (src/unnamed/part_000).                                                 *)
(*                                                                         *)
(* Three state machines share the variables below:                         *)
(*   CtorSpec  - new b3.Parallel(params), through b3.Class                 *)
(*   Spec      - ticks of one Parallel node over its children              *)
(*               (FairSpec: the same, with every tick step taken)          *)
(*   LoadSpec  - one call of b3.LoadProject(projectData, names)            *)
(***************************************************************************)
EXTENDS Integers, Sequences, FiniteSets, TLC

\* ------------------------------------------------------------------ bounds
MaxThreshold == 2     \* largest value of settings.F / settings.S
MaxChildren == 3      \* longest children list of the ticked Parallel node
MaxNodes == 2         \* Parallel nodes constructed in one run of CtorSpec
MaxSpecChildren == 2  \* longest children list of a node specification

VARIABLES
    \* --- the JavaScript environment
    hasGlobal,      \* a global binding named `parameters` exists
    parameters,     \* the value of that global binding
    \* --- construction (CtorSpec)
    instances,      \* the Parallel nodes constructed so far, each [F, S]
    ctorStatus,     \* outcome of the last `new b3.Parallel(params)`
    ctorArg,        \* the params the last constructor call received
    ctorCalls,      \* number of constructor calls made
    \* --- one Parallel node being ticked (Spec)
    self,           \* the node: [F, S, children]
    pc,             \* position inside tick(): "idle", "loop", "done"
    idx,            \* forEach position in this.children
    counter,        \* the local `counter` of tick()
    execLog,        \* children whose _execute ran in the current tick, in order
    outLog,         \* what each of those calls returned
    child,          \* per child: [isOpen, last, unbalanced]
    result,         \* value returned by the last tick
    \* --- LoadProject (LoadSpec)
    projectData,    \* argument 1
    names,          \* argument 2 after `names = names || {}`
    lpc,            \* position inside LoadProject
    ti,             \* forEach position in projectData.trees
    trees,          \* the local `trees`: tree id -> heap address
    heap,           \* objects allocated by `new`
    tempNodes,      \* per tree id, the local `tempNodes` of its pass
    error,          \* the exception that left LoadProject, if any
    console         \* messages written with console.error

vars == <<hasGlobal, parameters, instances, ctorStatus, ctorArg, ctorCalls,
          self, pc, idx, counter, execLog, outLog, child, result,
          projectData, names, lpc, ti, trees, heap, tempNodes, error, console>>

envVars  == <<hasGlobal, parameters>>
ctorVars == <<instances, ctorStatus, ctorArg, ctorCalls>>
tickVars == <<self, pc, idx, counter, execLog, outLog, child, result>>
loadVars == <<projectData, names, lpc, ti, trees, heap, tempNodes, error, console>>

\* ------------------------------------------------------- outcome constants
SUCCESS == "SUCCESS"
FAILURE == "FAILURE"
RUNNING == "RUNNING"
ERROR   == "ERROR"
Outcomes == {SUCCESS, FAILURE, RUNNING, ERROR}

\* ------------------------------------------------------------- b3.Class
\* A settings object is a function from the keys it has to their values.
Thresholds == -1 .. MaxThreshold
Settings == UNION {[ks -> Thresholds] : ks \in SUBSET {"F", "S"}}
EmptyObject == CHOOSE s \in Settings : DOMAIN s = {}
NoParams == [absent |-> TRUE]
Params == Settings \cup {NoParams}

\* cls = function(params) { this.initialize(params || {}); }
ParamsOrEmpty(params) == IF params = NoParams THEN EmptyObject ELSE params

\* settings.K || 0 : an absent key reads undefined, and undefined and 0 are falsy
PropOrZero(settings, k) ==
    IF k \in DOMAIN settings /\ settings[k] # 0 THEN settings[k] ELSE 0

\* ------------------------------------------------ b3.Parallel.initialize
\* `parameters = settings || {}` is an assignment to an undeclared name in
\* strict-mode code: it throws ReferenceError unless a global binding of that
\* name exists, and otherwise overwrites that global.
InitializeThrows(global) == ~global

\* this.F = settings.F || 0; this.S = settings.S || 0;
\* b3.Composite.prototype.initialize.call(this) leaves an empty children list.
Initialize(settings) ==
    [F |-> PropOrZero(settings, "F"),
     S |-> PropOrZero(settings, "S"),
     children |-> << >>]

\* ------------------------------------------------------ node life cycle
\* BaseNode is not among the source files; _open, _close and _execute follow
\* the node lifecycle protocol: execute = open if not open, tick, close if the
\* result is not RUNNING.  `last` and `unbalanced` record the calls made.
ChildInit == [isOpen |-> FALSE, last |-> "none", unbalanced |-> FALSE]

Open(st) ==
    [isOpen |-> TRUE, last |-> "open",
     unbalanced |-> st.unbalanced \/ st.last = "open"]

Close(st) ==
    [isOpen |-> FALSE, last |-> "close",
     unbalanced |-> st.unbalanced \/ st.last # "open"]

Execute(st, o) ==
    LET opened == IF st.isOpen THEN st ELSE Open(st)
    IN  IF o # RUNNING THEN Close(opened) ELSE opened

\* ------------------------------------------------------ b3.Parallel.tick
\* counter[b3.SUCCESS] = 0; ... counter[b3.ERROR] = 0;
ZeroCounter == [o \in Outcomes |-> 0]

\* the entry point tick() calls on a child: node._execute(tick)
\* (variant: the child's tick is called directly, with no open or close)
CallChildRawTick(st, o) == st

CallChild(st, o) == Execute(st, o)

\* counter[...]++
Count(cnt, o) == [cnt EXCEPT ![o] = @ + 1]

\* forEach is over when every element of this.children has been visited
\* (variant: the loop stops as soon as a threshold is met)
ForEachDoneShort(i, node, cnt) ==
    i > Len(node.children) \/ cnt[SUCCESS] >= node.S \/ cnt[FAILURE] >= node.F

ForEachDone(i, node, cnt) == i > Len(node.children)

\* the element forEach visits at position i
ForEachElement(i, node) == node.children[i]

\* if (counter[SUCCESS] >= this.S) return SUCCESS;
\* else if (counter[FAILURE] >= this.F) return FAILURE;
\* return RUNNING;
\* (variant: "larger than", as the class comment words it)
DecideStrict(cnt, node) ==
    IF cnt[SUCCESS] > node.S THEN SUCCESS
    ELSE IF cnt[FAILURE] > node.F THEN FAILURE
    ELSE RUNNING

Decide(cnt, node) ==
    IF cnt[SUCCESS] >= node.S THEN SUCCESS
    ELSE IF cnt[FAILURE] >= node.F THEN FAILURE
    ELSE RUNNING

ChildIds == 1 .. MaxChildren

\* lines 57-61: a tick starts with fresh counters
TickEnter ==
    /\ pc \in {"idle", "done"}
    /\ pc' = "loop"
    /\ idx' = 1
    /\ counter' = ZeroCounter
    /\ execLog' = << >>
    /\ outLog' = << >>
    /\ UNCHANGED <<self, child, result>>
    /\ UNCHANGED <<envVars, ctorVars, loadVars>>

\* lines 63-65: one iteration of forEach; the child returns any outcome
ExecChild ==
    /\ pc = "loop"
    /\ ~ForEachDone(idx, self, counter)
    /\ \E o \in Outcomes :
         LET c == ForEachElement(idx, self)
         IN  /\ child' = [child EXCEPT ![c] = CallChild(@, o)]
             /\ counter' = Count(counter, o)
             /\ execLog' = Append(execLog, c)
             /\ outLog' = Append(outLog, o)
    /\ idx' = idx + 1
    /\ UNCHANGED <<self, pc, result>>
    /\ UNCHANGED <<envVars, ctorVars, loadVars>>

\* lines 67-72: the thresholds decide what tick returns
TickReturn ==
    /\ pc = "loop"
    /\ ForEachDone(idx, self, counter)
    /\ result' = Decide(counter, self)
    /\ pc' = "done"
    /\ UNCHANGED <<self, idx, counter, execLog, outLog, child>>
    /\ UNCHANGED <<envVars, ctorVars, loadVars>>

\* ========================================================= b3.LoadProject
\* ----------------------------------------------------------- JS values
\* A reference to a heap object, or one of the two empty values.
Ref(a)    == [tag |-> "ref", addr |-> a]
Null      == [tag |-> "null", addr |-> 0]
Undefined == [tag |-> "undefined", addr |-> 0]

NoError == [type |-> "none", at |-> "", msg |-> ""]

\* typeof v: null is an "object"
TypeOf(v) == IF v.type = "null" THEN "object" ELSE v.type

\* names = names || {}
NamesOrEmpty(n) == IF n.defined THEN n ELSE [defined |-> TRUE, keys |-> {}]

\* ------------------------------------------------------- the b3 namespace
\* members this repository's files assign
B3Defined == {"Parallel", "createUUID", "Class", "LoadProject"}
\* members these files read and other files of the library assign
B3Used == {"Composite", "BehaviorTree", "SUCCESS", "FAILURE", "RUNNING",
           "ERROR", "COMPOSITE", "DECORATOR"}
\* node classes of the library that are not among the source files, with
\* the category their type fixes
B3Builtins == [Sequence |-> "composite", Inverter |-> "decorator",
               Wait |-> "action"]

\* spec.name in b3
InB3(name) == name \in B3Defined \cup B3Used \cup DOMAIN B3Builtins

\* ------------------------------------------------------------ allocation
\* `from` records the registry the class was taken from.
Obj(kind, cls, category) ==
    [kind |-> kind, cls |-> cls, category |-> category, from |-> "b3",
     children |-> << >>, child |-> Null, root |-> Null, id |-> ""]

\* new b3.BehaviorTree(): no root yet
NewBehaviorTree == Obj("BehaviorTree", "BehaviorTree", "none")

\* new cls(spec.properties) for cls = b3[name].  b3.Parallel is the class of
\* Parallel.js; b3.createUUID is the plain function of part_000: called with
\* new it returns a string, so the expression yields the fresh empty object.
NewB3(name) ==
    IF name = "Parallel" THEN Obj("Node", "Parallel", "composite")
    ELSE IF name \in DOMAIN B3Builtins THEN Obj("Node", name, B3Builtins[name])
    ELSE Obj("Object", name, "none")

\* tempNodes[id], undefined for an id the table lacks
Lookup(temp, id) == IF id \in DOMAIN temp THEN temp[id] ELSE Undefined

\* the keys of `nodes` in for-in order
NodeOrder == <<"n1", "n2", "n3">>
KeysOf(nodes) == SelectSeq(NodeOrder, LAMBDA id : id \in DOMAIN nodes)

\* ----------------------------------------------- pass 2: instantiation
\* tempNodes[id] = trees[nodes[id].name]   (the node is a tree)
\* (variant: the root of the tree is bound instead of the tree)
BindSubtreeRoot(h, trs, name) == h[trs[name]].root

BindSubtree(h, trs, name) == Ref(trs[name])

\* One iteration of `for (var id in nodes)`, lines 159-186.  st carries the
\* heap, this tree's tempNodes, the global `parameters` and the exception
\* thrown, if any.  The callback is a plain function in strict-mode code, so
\* its `this` is undefined and `this._nodes` throws TypeError.
Instantiate(st, id, spec, trs, nm, global) ==
    IF spec.name \in DOMAIN trs
    THEN [st EXCEPT !.temp = (id :> BindSubtree(st.heap, trs, spec.name)) @@ @]
    ELSE IF spec.name \in nm.keys
    THEN [st EXCEPT !.err = [type |-> "TypeError", at |-> spec.name, msg |-> ""]]
    ELSE IF InB3(spec.name)
    THEN IF spec.name = "Parallel" /\ InitializeThrows(global)
         THEN [st EXCEPT !.err = [type |-> "ReferenceError", at |-> spec.name,
                                  msg |-> "parameters"]]
         ELSE [st EXCEPT
                 !.heap = Append(@, NewB3(spec.name)),
                 !.temp = (id :> Ref(Len(st.heap) + 1)) @@ @,
                 !.params = IF spec.name = "Parallel" THEN EmptyObject ELSE @]
    ELSE [st EXCEPT !.err = [type |-> "EvalError", at |-> spec.name,
                             msg |-> spec.name]]

RECURSIVE InstantiateAll(_, _, _, _, _, _)
InstantiateAll(st, keys, nodes, trs, nm, global) ==
    IF keys = << >> \/ st.err # NoError THEN st
    ELSE InstantiateAll(Instantiate(st, Head(keys), nodes[Head(keys)], trs, nm, global),
                        Tail(keys), nodes, trs, nm, global)

\* ------------------------------------------------------ pass 2: wiring
\* for (i = 0; i < spec.children.length; i++) node.children.push(tempNodes[cid])
\* (variant: each child is put in front of the list)
WireChildrenUnshift(cur, temp, cids) ==
    [i \in 1 .. Len(cids) |-> Lookup(temp, cids[Len(cids) + 1 - i])] \o cur

WireChildren(cur, temp, cids) ==
    cur \o [i \in 1 .. Len(cids) |-> Lookup(temp, cids[i])]

\* One iteration of the second `for (var id in nodes)`, lines 188-200.
\* Reading node.category of null or undefined throws TypeError.
Connect(st, id, spec) ==
    LET a == st.temp[id].addr
        node == st.heap[a]
    IN  IF st.temp[id].tag # "ref"
        THEN [st EXCEPT !.err = [type |-> "TypeError", at |-> spec.name, msg |-> ""]]
        ELSE IF node.category = "composite" /\ spec.hasChildren
        THEN [st EXCEPT !.heap[a].children = WireChildren(@, st.temp, spec.children)]
        ELSE IF node.category = "decorator" /\ spec.child # ""
        THEN [st EXCEPT !.heap[a].child = Lookup(st.temp, spec.child)]
        ELSE st

RECURSIVE ConnectAll(_, _, _)
ConnectAll(st, keys, nodes) ==
    IF keys = << >> \/ st.err # NoError THEN st
    ELSE ConnectAll(Connect(st, Head(keys), nodes[Head(keys)]), Tail(keys), nodes)

\* trees[tree.id].root = tempNodes[tree.root]
\* (variant: the root is left as the constructor set it)
ConnectRootSkipped(h, trs, tree, temp) == h

ConnectRoot(h, trs, tree, temp) ==
    [h EXCEPT ![trs[tree.id]].root = Lookup(temp, tree.root)]

\* ------------------------------------------------------------ the call
\* lines 133-139
LoadEnter ==
    /\ lpc = "call"
    /\ IF TypeOf(projectData) # "object"
       THEN /\ console' = Append(console, "No project data provided.")
            /\ lpc' = "returnedUndefined"
            /\ UNCHANGED <<names, trees, ti, error>>
       ELSE IF projectData.type = "null"
       THEN \* projectData.trees of null
            /\ error' = [type |-> "TypeError", at |-> "projectData", msg |-> ""]
            /\ lpc' = "thrown"
            /\ names' = NamesOrEmpty(names)
            /\ UNCHANGED <<trees, ti, console>>
       ELSE /\ names' = NamesOrEmpty(names)
            /\ trees' = << >>
            /\ ti' = 1
            /\ lpc' = IF Len(projectData.trees) = 0 THEN "pass2" ELSE "pass1"
            /\ UNCHANGED <<error, console>>
    /\ UNCHANGED <<projectData, heap, tempNodes>>
    /\ UNCHANGED <<envVars, ctorVars, tickVars>>

\* lines 142-151: one iteration of the first forEach
Pass1Tree ==
    /\ lpc = "pass1"
    /\ LET tree == projectData.trees[ti]
       IN  /\ heap' = Append(heap, [NewBehaviorTree EXCEPT !.id = tree.id])
           /\ trees' = (tree.id :> (Len(heap) + 1)) @@ trees
    /\ IF ti = Len(projectData.trees)
       THEN lpc' = "pass2" /\ ti' = 1
       ELSE lpc' = "pass1" /\ ti' = ti + 1
    /\ UNCHANGED <<projectData, names, tempNodes, error, console>>
    /\ UNCHANGED <<envVars, ctorVars, tickVars>>

\* lines 155-204: one iteration of the second forEach
Pass2Tree ==
    /\ lpc = "pass2"
    /\ ti <= Len(projectData.trees)
    /\ LET tree == projectData.trees[ti]
           keys == KeysOf(tree.nodes)
           st0  == [heap |-> heap, temp |-> << >>, params |-> parameters,
                    err |-> NoError]
           st1  == InstantiateAll(st0, keys, tree.nodes, trees, names, hasGlobal)
           st2  == ConnectAll(st1, keys, tree.nodes)
       IN  IF st2.err # NoError
           THEN /\ error' = st2.err
                /\ lpc' = "thrown"
                /\ heap' = st2.heap
                /\ parameters' = st2.params
                /\ tempNodes' = (tree.id :> st2.temp) @@ tempNodes
                /\ UNCHANGED ti
           ELSE /\ heap' = ConnectRoot(st2.heap, trees, tree, st2.temp)
                /\ parameters' = st2.params
                /\ tempNodes' = (tree.id :> st2.temp) @@ tempNodes
                /\ ti' = ti + 1
                /\ UNCHANGED <<error, lpc>>
    /\ UNCHANGED <<projectData, names, trees, console, hasGlobal>>
    /\ UNCHANGED <<ctorVars, tickVars>>

\* line 206: return trees
LoadReturn ==
    /\ lpc = "pass2"
    /\ ti > Len(projectData.trees)
    /\ lpc' = "returned"
    /\ UNCHANGED <<projectData, names, ti, trees, heap, tempNodes, error, console>>
    /\ UNCHANGED <<envVars, ctorVars, tickVars>>

\* ----------------------------------------------------------- the inputs
NodeNames == {"A", "B", "Parallel", "Sequence", "Inverter", "Wait",
              "Custom", "Bogus", "createUUID"}

Leaf(name) == [name |-> name, hasChildren |-> FALSE, children |-> << >>,
               child |-> ""]

ChildLists == UNION {[1 .. k -> {"n2", "n3"}] : k \in 0 .. MaxSpecChildren}

N1Specs ==
    {Leaf(nm) : nm \in NodeNames}
    \cup {[name |-> nm, hasChildren |-> TRUE, children |-> cs, child |-> ch] :
             nm \in NodeNames, cs \in ChildLists, ch \in {"", "n2"}}

Entries(id, specs) == {<< >>} \cup {id :> sp : sp \in specs}

\* tree B: a parent node n1 of any kind over up to two more nodes
RichTrees ==
    {[id |-> "B", root |-> r, nodes |-> e1 @@ e2 @@ e3] :
        r \in {"n1", "n2"},
        e1 \in Entries("n1", N1Specs),
        e2 \in Entries("n2", {Leaf(nm) : nm \in {"A", "Wait", "Bogus"}}),
        e3 \in Entries("n3", {Leaf("Wait")})}

\* tree A: a single node
SimpleTrees ==
    {[id |-> "A", root |-> "n1", nodes |-> "n1" :> Leaf(nm)] :
        nm \in {"Wait", "B", "Bogus"}}

TreeLists ==
    {<< >>} \cup {<<a>> : a \in SimpleTrees} \cup {<<b>> : b \in RichTrees}
    \cup {<<a, b>> : a \in SimpleTrees, b \in RichTrees}
    \cup {<<b, a>> : a \in SimpleTrees, b \in RichTrees}

ProjectInputs ==
    {[type |-> t] : t \in {"undefined", "null", "number", "string", "boolean"}}
    \cup {[type |-> "object", trees |-> ts] : ts \in TreeLists}

\* the names argument: absent, or a registry of custom classes
NamesInputs ==
    {[defined |-> FALSE, keys |-> {}],
     [defined |-> TRUE, keys |-> {"Custom", "Wait"}]}

\* --------------------------------------------------- new b3.Parallel(params)
\* b3.Class's cls(params) calls initialize(params || {}); initialize throws
\* at its first statement when no global `parameters` exists, and no node
\* comes out of `new`.
ConstructThrows ==
    /\ ctorCalls < MaxNodes
    /\ InitializeThrows(hasGlobal)
    /\ \E params \in Params : ctorArg' = params
    /\ ctorStatus' = "ReferenceError"
    /\ ctorCalls' = ctorCalls + 1
    /\ UNCHANGED <<instances, envVars, tickVars, loadVars>>

ConstructReturns ==
    /\ ctorCalls < MaxNodes
    /\ ~InitializeThrows(hasGlobal)
    /\ \E params \in Params :
         /\ ctorArg' = params
         /\ parameters' = ParamsOrEmpty(params)
         /\ instances' = Append(instances, Initialize(ParamsOrEmpty(params)))
    /\ ctorStatus' = "ok"
    /\ ctorCalls' = ctorCalls + 1
    /\ UNCHANGED <<hasGlobal, tickVars, loadVars>>

\* ------------------------------------------------------------ idle parts
CtorIdle ==
    /\ instances = << >>
    /\ ctorStatus = "none"
    /\ ctorArg = NoParams
    /\ ctorCalls = 0

TickIdle ==
    /\ self = Initialize(EmptyObject)
    /\ pc = "off"
    /\ idx = 0
    /\ counter = ZeroCounter
    /\ execLog = << >>
    /\ outLog = << >>
    /\ child = [c \in ChildIds |-> ChildInit]
    /\ result = RUNNING

LoadIdle ==
    /\ projectData = [type |-> "undefined"]
    /\ names = [defined |-> FALSE, keys |-> {}]
    /\ lpc = "off"
    /\ ti = 0
    /\ trees = << >>
    /\ heap = << >>
    /\ tempNodes = << >>
    /\ error = NoError
    /\ console = << >>

\* ------------------------------------------------------------- CtorSpec
CtorInit ==
    /\ hasGlobal \in BOOLEAN
    /\ parameters = NoParams
    /\ CtorIdle
    /\ TickIdle
    /\ LoadIdle

CtorNext == ConstructThrows \/ ConstructReturns

CtorSpec == CtorInit /\ [][CtorNext]_vars

\* ----------------------------------------------------------------- Spec
\* A Parallel node that came out of its constructor (so the global exists),
\* with the children LoadProject pushed onto it.
Init ==
    /\ hasGlobal = TRUE
    /\ \E params \in Params, n \in 0 .. MaxChildren :
         /\ parameters = ParamsOrEmpty(params)
         /\ self = [Initialize(ParamsOrEmpty(params))
                        EXCEPT !.children = [i \in 1 .. n |-> i]]
    /\ pc = "idle"
    /\ idx = 0
    /\ counter = ZeroCounter
    /\ execLog = << >>
    /\ outLog = << >>
    /\ child = [c \in ChildIds |-> ChildInit]
    /\ result = RUNNING
    /\ CtorIdle
    /\ LoadIdle

Next == TickEnter \/ ExecChild \/ TickReturn

Spec == Init /\ [][Next]_vars

\* A tick is one synchronous call: once entered it runs to its return, and
\* the caller may tick again for ever.
FairSpec == Spec /\ WF_vars(Next)

\* ------------------------------------------------------------- LoadSpec
LoadInit ==
    /\ hasGlobal \in BOOLEAN
    /\ parameters = NoParams
    /\ projectData \in ProjectInputs
    /\ names \in NamesInputs
    /\ lpc = "call"
    /\ ti = 0
    /\ trees = << >>
    /\ heap = << >>
    /\ tempNodes = << >>
    /\ error = NoError
    /\ console = << >>
    /\ CtorIdle
    /\ TickIdle

LoadNext == LoadEnter \/ Pass1Tree \/ Pass2Tree \/ LoadReturn

LoadSpec == LoadInit /\ [][LoadNext]_vars


\* ======================================================= Parallel: claims
\* number of children of the current tick that returned outcome o
Returned(o) == Cardinality({i \in 1 .. Len(outLog) : outLog[i] = o})

C2_AllChildrenInOrder ==
    /\ pc = "loop" => /\ idx \in 1 .. Len(self.children) + 1
                      /\ execLog = SubSeq(self.children, 1, idx - 1)
    /\ pc = "done" => execLog = self.children
    /\ Len(outLog) = Len(execLog)
    /\ \A i \in 1 .. Len(execLog) :
         LET st == child[execLog[i]]
         IN  (st.isOpen <=> outLog[i] = RUNNING) /\ st.last # "none"

\* the first child failed with F = 1 met at once, and the other two children
\* were still executed before FAILURE was returned
C2_Witness ==
    /\ pc = "done"
    /\ self.F = 1 /\ self.S = 2
    /\ outLog = <<FAILURE, RUNNING, SUCCESS>>
    /\ execLog = <<1, 2, 3>>
    /\ result = FAILURE

\* C7 (as stated): every open of a child of a Parallel node is eventually
\* followed by a close.
C7_EveryOpenEventuallyClosed ==
    \A c \in ChildIds : child[c].isOpen ~> ~child[c].isOpen

\* C7 (amended): for every child of a Parallel node, opens and closes
\* alternate, starting with an open: a child is never opened while open nor
\* closed while closed.  A child executed in the current tick is open exactly
\* if it returned RUNNING, also when the Parallel node itself returns SUCCESS
\* or FAILURE; it is then not opened again by later ticks, and is closed by
\* the first tick in which it returns another outcome.
C7_OpenCloseAlternate ==
    /\ \A c \in ChildIds :
         /\ ~child[c].unbalanced
         /\ child[c].isOpen <=> child[c].last = "open"
    /\ \A i \in 1 .. Len(execLog) :
         child[execLog[i]].isOpen <=> outLog[i] = RUNNING

\* the Parallel node returned SUCCESS while child 1 returned RUNNING and stays
\* open, and child 2 was opened and closed
C7_Witness ==
    /\ pc = "done"
    /\ result = SUCCESS
    /\ Len(outLog) >= 2
    /\ outLog[1] = RUNNING /\ child[1].isOpen
    /\ outLog[2] = SUCCESS /\ child[2].last = "close"

\* ==================================================== construction: claims
\* the value the caller gave for key k, 0 when unspecified
Given(params, k) ==
    IF params # NoParams /\ k \in DOMAIN params THEN params[k] ELSE 0

\* C8: constructing a Parallel node completes without error for any settings
\* object; afterwards F = settings.F and S = settings.S, 0 when unspecified;
\* and constructing a node does not change the thresholds of earlier nodes.
C8_ConstructionSetsThresholds ==
    [][ctorCalls' # ctorCalls =>
          /\ ctorStatus' = "ok"
          /\ Len(instances') = Len(instances) + 1
          /\ instances'[Len(instances')].F = Given(ctorArg', "F")
          /\ instances'[Len(instances')].S = Given(ctorArg', "S")
          /\ \A i \in 1 .. Len(instances) : instances'[i] = instances[i]]_vars

\* ===================================================== LoadProject: claims
TreeSpecs == IF projectData.type = "object"
             THEN {projectData.trees[i] : i \in 1 .. Len(projectData.trees)}
             ELSE {}
TreeIds == {t.id : t \in TreeSpecs}
\* the node bound to local id `id` of tree specification t
Bound(t, id) == tempNodes[t.id][id]
IsSubtreeRef(sp) == sp.name \in TreeIds
\* the node specifications that are not references to a tree
OwnNodes ==
    UNION {{<<t.id, id>> : id \in {i \in DOMAIN t.nodes : ~IsSubtreeRef(t.nodes[i])}} :
              t \in TreeSpecs}

\* C3 (as stated): the object bound to a node of B named after tree A is
\* reference-identical to tree A's own root Node.
C3_BoundToRootOfTree ==
    lpc = "returned" =>
        \A t \in TreeSpecs : \A id \in DOMAIN t.nodes :
            (IsSubtreeRef(t.nodes[id]) /\ t.nodes[id].name # t.id) =>
                Bound(t, id) = heap[trees[t.nodes[id].name]].root

\* C3 (amended): after LoadProject on a project in which a node of tree B has
\* a name equal to the id of tree A, the object bound to that node in B, and
\* wired as a child or root wherever that node id is listed, is
\* reference-identical to the BehaviorTree object LoadProject returns under
\* A's id (not to A's root Node); no new instance is created for it, and
\* this holds whether A comes before or after B in the trees list.
C3_BoundToTreeItself ==
    /\ error.type = "EvalError" => error.at \notin TreeIds
    /\ lpc = "returned" =>
        /\ \A t \in TreeSpecs : \A id \in DOMAIN t.nodes :
             IsSubtreeRef(t.nodes[id]) =>
                LET a == trees[t.nodes[id].name]
                IN  /\ Bound(t, id) = Ref(a)
                    /\ heap[a].kind = "BehaviorTree"
                    /\ heap[a].id = t.nodes[id].name
                    /\ t.root = id => heap[trees[t.id]].root = Ref(a)
                    /\ \A p \in DOMAIN t.nodes :
                         LET sp == t.nodes[p]
                             n == heap[Bound(t, p).addr]
                         IN  /\ (n.category = "composite" /\ sp.hasChildren) =>
                                   \A i \in 1 .. Len(sp.children) :
                                       sp.children[i] = id => n.children[i] = Ref(a)
                             /\ (n.category = "decorator" /\ sp.child = id) =>
                                   n.child = Ref(a)
        /\ Len(heap) = Cardinality(TreeSpecs) + Cardinality(OwnNodes)

\* B comes before A in the list, B's composite n1 lists n2, and n2 is named A
C3_Witness ==
    /\ lpc = "returned"
    /\ Len(projectData.trees) = 2
    /\ projectData.trees[1].id = "B"
    /\ LET b == projectData.trees[1]
       IN  /\ "n1" \in DOMAIN b.nodes /\ "n2" \in DOMAIN b.nodes
           /\ b.nodes["n1"].name = "Sequence"
           /\ b.nodes["n1"].children = <<"n2">>
           /\ b.nodes["n2"].name = "A"
           /\ heap[Bound(b, "n1").addr].children = <<Ref(trees["A"])>>
           /\ heap[trees["A"]].root # Ref(trees["A"])

\* the node classes of the library, as opposed to its other members
NodeClasses == {"Parallel"} \cup DOMAIN B3Builtins
\* a name that is no tree id, no key of the custom registry and no node class
Unresolvable(name) ==
    /\ name \in NodeNames
    /\ name \notin TreeIds
    /\ name \notin names.keys
    /\ name \notin NodeClasses
AllSpecs == UNION {{t.nodes[id] : id \in DOMAIN t.nodes} : t \in TreeSpecs}

\* C4: when LoadProject meets a node specification whose name is neither a
\* tree id, nor a key of the custom registry, nor a built-in node class,
\* loading ends with a fatal error that identifies that name, and no tree
\* mapping is returned.
C4_UnknownNameIsFatal ==
    /\ lpc = "returned" => \A sp \in AllSpecs : ~Unresolvable(sp.name)
    /\ (lpc = "thrown" /\ Unresolvable(error.at)) =>
           (error.type = "EvalError" /\ error.msg = error.at)

\* C5: when a node specification's name is a key of the custom registry and
\* is not a tree id, LoadProject completes and the node instantiated for it
\* is an instance of the class the custom registry holds under that name
\* (the custom registry wins over the built-in classes).
C5_CustomClassInstantiated ==
    /\ lpc = "thrown" => ~(error.at \in names.keys /\ error.at \notin TreeIds)
    /\ lpc = "returned" =>
         \A t \in TreeSpecs : \A id \in DOMAIN t.nodes :
            (t.nodes[id].name \in names.keys /\ ~IsSubtreeRef(t.nodes[id])) =>
                LET n == heap[Bound(t, id).addr]
                IN  n.from = "custom" /\ n.cls = t.nodes[id].name

\* C6: for every projectData that is not an object (undefined, null, a
\* number, a string, a boolean) LoadProject reports a failure and returns
\* without raising an exception and without returning a tree mapping.
C6_NonObjectReported ==
    (projectData.type # "object" /\ lpc # "call") =>
        /\ lpc = "returnedUndefined"
        /\ error = NoError
        /\ console = <<"No project data provided.">>

\* C9 (as stated): for every project for which LoadProject returns normally,
\* every BehaviorTree of the returned mapping has a root that is neither null
\* nor undefined: the object of that tree's node table for its root id.
C9_RootNeverNull ==
    lpc = "returned" =>
        \A t \in TreeSpecs :
            /\ heap[trees[t.id]].root.tag = "ref"
            /\ heap[trees[t.id]].root = Lookup(tempNodes[t.id], t.root)

\* C9 (amended): for every project of trees with distinct ids for which
\* LoadProject returns normally, every BehaviorTree of the returned mapping whose specification's root id
\* is a key of its nodes table has a root that is neither null nor
\* undefined: the object bound in that tree's node table for the root id.
\* A tree whose root id is not a key of its nodes table has root undefined.
C9_RootBoundWhenListed ==
    lpc = "returned" =>
        \A t \in TreeSpecs :
            LET root == heap[trees[t.id]].root
            IN  /\ t.root \in DOMAIN t.nodes =>
                     (root.tag = "ref" /\ root = Bound(t, t.root))
                /\ t.root \notin DOMAIN t.nodes => root = Undefined

\* two trees were loaded, and each root is the object bound for its root id
C9_Witness ==
    /\ lpc = "returned"
    /\ Len(projectData.trees) = 2
    /\ \A t \in TreeSpecs :
         /\ t.root \in DOMAIN t.nodes
         /\ heap[trees[t.id]].root = Bound(t, t.root)
         /\ heap[heap[trees[t.id]].root.addr].kind = "Node"

\* C10: after LoadProject returns, for every node specification of every
\* tree: a composite's children list is exactly the sequence of the objects
\* bound in that tree's node table to the ids of the specification's children
\* list, same length and order; a decorator's child is the object bound to
\* the specification's child id; an action's wiring is left unchanged.
C10_WiringFollowsSpecification ==
    lpc = "returned" =>
        \A t \in TreeSpecs : \A id \in DOMAIN t.nodes :
            LET sp == t.nodes[id]
                n  == heap[Bound(t, id).addr]
            IN  n.kind = "Node" =>
                  /\ n.category = "composite" =>
                       /\ Len(n.children) = Len(sp.children)
                       /\ \A i \in 1 .. Len(sp.children) :
                            n.children[i] = Lookup(tempNodes[t.id], sp.children[i])
                       /\ n.child = Null
                  /\ n.category = "decorator" =>
                       /\ sp.child # "" => n.child = Lookup(tempNodes[t.id], sp.child)
                       /\ sp.child = "" => n.child = Null
                       /\ n.children = << >>
                  /\ n.category = "action" =>
                       (n.children = << >> /\ n.child = Null)

\* a Parallel node was wired to two different nodes in the listed order
C10_Witness ==
    /\ lpc = "returned"
    /\ \E t \in TreeSpecs :
         /\ {"n1", "n2", "n3"} \subseteq DOMAIN t.nodes
         /\ t.nodes["n1"].name = "Parallel"
         /\ t.nodes["n1"].children = <<"n3", "n2">>
         /\ heap[Bound(t, "n1").addr].children = <<Bound(t, "n3"), Bound(t, "n2")>>
         /\ Bound(t, "n3") # Bound(t, "n2")

====
